---- MODULE Spec2Model ----
(***************************************************************************)
(* namesmith: the word-generation engine of src/main.rs.                   *)
(*                                                                         *)
(* A Rust String is modelled as a sequence of characters (one-character    *)
(* strings; the combining tie bar U+0361 is the character TieBar), a       *)
(* Vec<String> as a sequence of such sequences.  Every draw from the       *)
(* random generator is a nondeterministic choice; the iteration order of   *)
(* the romanization HashMap is a nondeterministic permutation of its keys. *)
(***************************************************************************)
EXTENDS Integers, Sequences, FiniteSets, TLC

VARIABLES
    config,          \* the Config struct, with the resolved onsets and codas
    affixes,         \* the affix list handed to create_word
    pc,              \* position in create_word / create_final_str
    word,            \* create_word: word
    syllable_count,  \* create_word: syllable_count
    i,               \* create_word: loop index of the syllable loop
    structure,       \* build_syllable: structure (of the last call)
    picks,           \* build_syllable: the phoneme drawn at each index
    syllable,        \* build_syllable: syllable (before concat)
    base,            \* the word as it left the syllable loop
    prefixed,        \* create_word: prefixed
    suffixed,        \* create_word: suffixed
    copy,            \* create_word: copy (working copy of the affixes)
    affix,           \* create_word: affix
    real_affix,      \* create_word: real_affix
    draws,           \* number of draws of the running selection loop
    order,           \* the order in which the HashMap yielded its keys
    ipa_word,        \* create_final_str: first component of the result
    romanized_word   \* create_final_str: second component of the result

vars == <<config, affixes, pc, word, syllable_count, i, structure, picks,
          syllable, base, prefixed, suffixed, copy, affix, real_affix, draws,
          order, ipa_word, romanized_word>>

(***************************************************************************)
(* Bounds of the model.                                                    *)
(***************************************************************************)
MaxSyllables == 3     \* largest max_syllable_count tried
MaxStress == 2        \* stressed ranges over -MaxStress .. MaxStress
MaxAffixes == 2       \* longest affix list tried
MaxTemplate == 4      \* longest syllable template tried

(***************************************************************************)
(* Characters and strings.                                                 *)
(***************************************************************************)
TieBar == "U+0361"
StressMark == <<"'">>
Boundary == <<" ">>

RECURSIVE concat(_)
concat(v) ==
    IF v = <<>> THEN <<>> ELSE Head(v) \o concat(Tail(v))

IsPrefixAt(s, pat) ==
    /\ Len(pat) <= Len(s)
    /\ \A k \in 1..Len(pat) : s[k] = pat[k]

starts_with(s, pat) ==
    IsPrefixAt(s, pat)

RECURSIVE replace(_, _, _)
replace(s, from, to) ==
    IF s = <<>> THEN <<>>
    ELSE IF IsPrefixAt(s, from)
         THEN to \o replace(SubSeq(s, Len(from) + 1, Len(s)), from, to)
         ELSE <<Head(s)>> \o replace(Tail(s), from, to)

lower(c) ==
    CASE c = "C" -> "c"
      [] c = "V" -> "v"
      [] OTHER -> c

to_lowercase(s) ==
    [k \in 1..Len(s) |-> lower(s[k])]

find(s, c) ==
    CHOOSE k \in 0..(Len(s) - 1) :
        /\ s[k + 1] = c
        /\ \A j \in 0..(k - 1) : s[j + 1] # c

position(v, x) ==
    CHOOSE k \in 0..(Len(v) - 1) :
        /\ v[k + 1] = x
        /\ \A j \in 0..(k - 1) : v[j + 1] # x

remove(v, index) ==
    SubSeq(v, 1, index) \o SubSeq(v, index + 2, Len(v))

insert(v, index, x) ==
    SubSeq(v, 1, index) \o <<x>> \o SubSeq(v, index + 1, Len(v))

wrap_sound(sound) ==
    <<"[">> \o sound \o <<"]">>

Range(v) ==
    {v[k] : k \in DOMAIN v}

(***************************************************************************)
(* build_syllable (src/main.rs 177-220).                                   *)
(***************************************************************************)

\* A bug: onsets and codas are taken for one another.
slot_inventory_swapped(st, index, cfg) ==
    IF st[index + 1] = "v" THEN cfg.vowels
    ELSE IF index < find(st, "v") THEN cfg.codas
    ELSE cfg.onsets

\* The Vec the loop body draws from at position index (lines 185-214).
slot_inventory(st, index, cfg) ==
    IF st[index + 1] = "v" THEN cfg.vowels
    ELSE IF index < find(st, "v") THEN cfg.onsets
    ELSE cfg.codas

\* A bug: the onset is pushed at the end of the syllable built so far.
build_step_onset_appended(st, index, syl, sound) ==
    Append(syl, wrap_sound(sound))

\* One iteration of the loop over the template, sound being the draw.
build_step(st, index, syl, sound) ==
    IF st[index + 1] = "v"
    THEN Append(syl, wrap_sound(sound))
    ELSE IF index < find(st, "v")
         THEN IF Len(syl) = 0
              THEN Append(syl, wrap_sound(sound))
              ELSE insert(syl, 0, wrap_sound(sound))
         ELSE Append(syl, wrap_sound(sound))

RECURSIVE build_loop(_, _, _, _)
build_loop(st, pk, index, syl) ==
    IF index >= Len(st) THEN syl
    ELSE build_loop(st, pk, index + 1, build_step(st, index, syl, pk[index + 1]))

\* The Vec syllable at line 219, for the draws pk (pk[index + 1] at index).
build_syllable(st, pk) ==
    build_loop(st, pk, 0, <<>>)

\* The draws build_syllable can make for the template st.
Draws(st, cfg) ==
    {pk \in [1..Len(st) -> Range(cfg.vowels) \cup Range(cfg.onsets) \cup Range(cfg.codas)] :
        \A k \in 1..Len(st) : pk[k] \in Range(slot_inventory(st, k - 1, cfg))}

(***************************************************************************)
(* create_word: the syllable loop (src/main.rs 236-257).                   *)
(***************************************************************************)

\* The condition of line 243.
stress_here(idx, stressed, count) ==
    \/ idx = stressed
    \/ idx = count - (stressed * (-1))
    \/ count = 1

\* A bug: a boundary marker follows every syllable.
needs_boundary_always(idx, count) ==
    idx # count

\* The condition of line 254.
needs_boundary(idx, count) ==
    idx # count - 1

DrawSyllableCount ==
    /\ pc = "start"
    /\ \E n \in 1..config.max_syllable_count :
        syllable_count' = n
    /\ i' = 0
    /\ pc' = "stress"
    /\ UNCHANGED <<config, affixes, word, structure, picks, syllable, base,
                   prefixed, suffixed, copy, affix, real_affix, draws, order,
                   ipa_word, romanized_word>>

StressStep ==
    /\ pc = "stress"
    /\ word' = IF stress_here(i, config.stressed, syllable_count)
               THEN Append(word, StressMark)
               ELSE word
    /\ pc' = "build"
    /\ UNCHANGED <<config, affixes, syllable_count, i, structure, picks,
                   syllable, base, prefixed, suffixed, copy, affix, real_affix,
                   draws, order, ipa_word, romanized_word>>

BuildSyllable ==
    /\ pc = "build"
    /\ \E s \in 1..Len(config.structures) :
        LET st == to_lowercase(config.structures[s]) IN
        \E pk \in Draws(st, config) :
            /\ structure' = st
            /\ picks' = pk
            /\ syllable' = build_syllable(st, pk)
            /\ word' = Append(word, concat(build_syllable(st, pk)))
    /\ pc' = "boundary"
    /\ UNCHANGED <<config, affixes, syllable_count, i, base, prefixed, suffixed,
                   copy, affix, real_affix, draws, order, ipa_word,
                   romanized_word>>

BoundaryStep ==
    /\ pc = "boundary"
    /\ word' = IF needs_boundary(i, syllable_count)
               THEN Append(word, Boundary)
               ELSE word
    /\ i' = i + 1
    /\ pc' = IF i + 1 < syllable_count THEN "stress" ELSE "affixes"
    /\ UNCHANGED <<config, affixes, syllable_count, structure, picks, syllable,
                   base, prefixed, suffixed, copy, affix, real_affix, draws,
                   order, ipa_word, romanized_word>>

(***************************************************************************)
(* create_word: affixes (src/main.rs 258-411).                             *)
(***************************************************************************)

\* A bug: any entry at all requests the path.
scan_any(list, tag) ==
    Len(list) > 0

\* The scan of lines 261-271: prefixed for tag "+", suffixed for tag "-".
scan(list, tag) ==
    \E k \in 1..Len(list) : starts_with(list[k], <<tag>>)

\* One iteration of the loops of lines 296-335 and 362-401: what is pushed
\* onto real_affix for the character at idx.
parse_step(s, idx) ==
    LET c == s[idx + 1] IN
    IF idx + 1 < Len(s)
    THEN IF s[idx + 2] = TieBar THEN <<"[", c>>
         ELSE IF c = TieBar THEN <<c>>
         ELSE <<"[", c, "]">>
    ELSE IF idx # 0 /\ s[idx] = TieBar THEN <<c, "]">>
    ELSE <<"[", c, "]">>

RECURSIVE parse_loop(_, _)
parse_loop(s, idx) ==
    IF idx >= Len(s) THEN <<>>
    ELSE parse_step(s, idx) \o parse_loop(s, idx + 1)

\* real_affix after the loop of lines 296-335.
parse_prefix(s) ==
    parse_loop(s, 0)

\* real_affix after the loop of lines 362-401.
parse_suffix(s) ==
    parse_loop(s, 0)

\* A bug: the prefix is pushed at the end of the word.
insert_prefix_at_end(w, tok) ==
    Append(Append(w, tok), Boundary)

\* Lines 337-339.
insert_prefix(w, tok) ==
    insert(insert(w, 0, replace(tok, <<"+">>, <<>>)), 1, Boundary)

\* Lines 403-409.
append_suffix(w, tok) ==
    LET marked == IF w[Len(w)] # Boundary THEN Append(w, Boundary) ELSE w
    IN  Append(marked, replace(tok, <<"-">>, <<>>))

ScanAffixes ==
    /\ pc = "affixes"
    /\ base' = word
    /\ prefixed' = (Len(affixes) > 0 /\ scan(affixes, "+"))
    /\ suffixed' = (Len(affixes) > 0 /\ scan(affixes, "-"))
    /\ pc' = IF Len(affixes) > 0 THEN "prefix" ELSE "render"
    /\ UNCHANGED <<config, affixes, word, syllable_count, i, structure, picks,
                   syllable, copy, affix, real_affix, draws, order, ipa_word,
                   romanized_word>>

\* Lines 273-277.
PrefixBranch ==
    /\ pc = "prefix"
    /\ IF prefixed
       THEN /\ copy' = affixes
            /\ real_affix' = <<>>
            /\ affix' = <<>>
            /\ draws' = 0
            /\ pc' = "prefix_draw"
       ELSE /\ pc' = "suffix"
            /\ UNCHANGED <<copy, real_affix, affix, draws>>
    /\ UNCHANGED <<config, affixes, word, syllable_count, i, structure, picks,
                   syllable, base, prefixed, suffixed, order, ipa_word,
                   romanized_word>>

\* One iteration of the loop of lines 278-286; choose on an empty Vec is
\* None, and unwrap then panics.
PrefixDraw ==
    /\ pc = "prefix_draw"
    /\ ~starts_with(affix, <<"+">>)
    /\ IF copy = <<>>
       THEN /\ pc' = "panic"
            /\ UNCHANGED <<affix, copy, draws>>
       ELSE /\ \E k \in 1..Len(copy) :
                /\ affix' = copy[k]
                /\ copy' = remove(copy, position(copy, copy[k]))
            /\ draws' = draws + 1
            /\ pc' = "prefix_draw"
    /\ UNCHANGED <<config, affixes, word, syllable_count, i, structure, picks,
                   syllable, base, prefixed, suffixed, real_affix, order,
                   ipa_word, romanized_word>>

\* Lines 287-339.
PrefixInsert ==
    /\ pc = "prefix_draw"
    /\ starts_with(affix, <<"+">>)
    /\ affix' = replace(affix, <<"+">>, <<>>)
    /\ real_affix' = parse_prefix(replace(affix, <<"+">>, <<>>))
    /\ word' = insert_prefix(word, parse_prefix(replace(affix, <<"+">>, <<>>)))
    /\ pc' = "suffix"
    /\ UNCHANGED <<config, affixes, syllable_count, i, structure, picks,
                   syllable, base, prefixed, suffixed, copy, draws, order,
                   ipa_word, romanized_word>>

\* Lines 341-345.
SuffixBranch ==
    /\ pc = "suffix"
    /\ IF suffixed
       THEN /\ copy' = affixes
            /\ real_affix' = <<>>
            /\ affix' = <<>>
            /\ draws' = 0
            /\ pc' = "suffix_draw"
       ELSE /\ pc' = "render"
            /\ UNCHANGED <<copy, real_affix, affix, draws>>
    /\ UNCHANGED <<config, affixes, word, syllable_count, i, structure, picks,
                   syllable, base, prefixed, suffixed, order, ipa_word,
                   romanized_word>>

\* One iteration of the loop of lines 346-352.
SuffixDraw ==
    /\ pc = "suffix_draw"
    /\ ~starts_with(affix, <<"-">>)
    /\ IF copy = <<>>
       THEN /\ pc' = "panic"
            /\ UNCHANGED <<affix, copy, draws>>
       ELSE /\ \E k \in 1..Len(copy) :
                /\ affix' = copy[k]
                /\ copy' = remove(copy, position(copy, copy[k]))
            /\ draws' = draws + 1
            /\ pc' = "suffix_draw"
    /\ UNCHANGED <<config, affixes, word, syllable_count, i, structure, picks,
                   syllable, base, prefixed, suffixed, real_affix, order,
                   ipa_word, romanized_word>>

\* Lines 353-409.
SuffixAppend ==
    /\ pc = "suffix_draw"
    /\ starts_with(affix, <<"-">>)
    /\ affix' = replace(affix, <<"-">>, <<>>)
    /\ real_affix' = parse_suffix(replace(affix, <<"-">>, <<>>))
    /\ word' = append_suffix(word, parse_suffix(replace(affix, <<"-">>, <<>>)))
    /\ pc' = "render"
    /\ UNCHANGED <<config, affixes, syllable_count, i, structure, picks,
                   syllable, base, prefixed, suffixed, copy, draws, order,
                   ipa_word, romanized_word>>

(***************************************************************************)
(* create_final_str (src/main.rs 427-438).                                 *)
(***************************************************************************)

\* The orders in which a HashMap with the keys of rom can yield them.
Orders(rom) ==
    {o \in [1..Cardinality(DOMAIN rom) -> DOMAIN rom] :
        \A a, b \in DOMAIN o : a # b => o[a] # o[b]}

\* clone after the loop of lines 432-435 has run over the keys o[n..].
RECURSIVE substitute(_, _, _, _)
substitute(s, rom, o, n) ==
    IF n > Len(o) THEN s
    ELSE substitute(replace(s, wrap_sound(o[n]), rom[o[n]]), rom, o, n + 1)

\* A bug: the markers are stripped from the phonetic string as well.
strip_brackets_and_markers(s) ==
    replace(replace(replace(replace(s, <<"[">>, <<>>), <<"]">>, <<>>),
                    <<"'">>, <<>>), <<" ">>, <<>>)

\* .replace("[", "").replace("]", "") of line 437.
strip_brackets(s) ==
    replace(replace(s, <<"[">>, <<>>), <<"]">>, <<>>)

\* The pair returned at line 437, o being the HashMap's iteration order.
create_final_str(w, rom, o) ==
    LET ipa == concat(w)
        clone == substitute(ipa, rom, o, 1)
        romanized == replace(replace(clone, <<"'">>, <<>>), <<" ">>, <<>>)
    IN  <<strip_brackets(ipa), strip_brackets(romanized)>>

CreateFinalStr ==
    /\ pc = "render"
    /\ \E o \in Orders(config.romanization) :
        /\ order' = o
        /\ ipa_word' = create_final_str(word, config.romanization, o)[1]
        /\ romanized_word' = create_final_str(word, config.romanization, o)[2]
    /\ pc' = "done"
    /\ UNCHANGED <<config, affixes, word, syllable_count, i, structure, picks,
                   syllable, base, prefixed, suffixed, copy, affix, real_affix,
                   draws>>

(***************************************************************************)
(* The inputs: phonology descriptors and affix lists.                      *)
(***************************************************************************)
P == <<"p">>
T == <<"t">>
N == <<"n">>
S == <<"s">>
A == <<"a">>
I == <<"i">>
AI == <<"a", TieBar, "i">>

Descriptor(v, on, co, st, stress, rom, max) ==
    [vowels |-> v, onsets |-> on, codas |-> co, structures |-> st,
     stressed |-> stress, romanization |-> rom, max_syllable_count |-> max]

RomScenario == (P :> <<"p">>) @@ (A :> <<"a">>)
RomPartial == (P :> <<"b">>) @@ (T :> <<"t", "h">>) @@ (AI :> <<"a", "i">>)
RomApostrophe == (T :> <<"'">>) @@ (A :> <<"a">>)
RomBracket == (A :> <<"[", "p", "]">>) @@ (P :> <<"x">>)

Romanizations == {RomScenario, RomPartial, RomApostrophe, RomBracket}

\* Entries of an affix list: "+t", "+a͡it", "+t+a", "-a͡i", "-n", "n".
AffixEntries ==
    {<<"+", "t">>, <<"+", "a", TieBar, "i", "t">>, <<"+", "t", "+", "a">>,
     <<"-", "a", TieBar, "i">>, <<"-", "n">>, <<"n">>}

AffixLists ==
    UNION {[1..n -> AffixEntries] : n \in 0..MaxAffixes}

\* The templates over {c, v} with exactly one v.
Templates ==
    UNION {{[j \in 1..n |-> IF j = k THEN "v" ELSE "c"] : k \in 1..n} : n \in 1..MaxTemplate}

RECURSIVE SetToSeq(_)
SetToSeq(set) ==
    IF set = {} THEN <<>>
    ELSE LET x == CHOOSE y \in set : TRUE IN <<x>> \o SetToSeq(set \ {x})

\* Stress index, syllable bound and templates vary; no affixes.
WordInputs ==
    {<<Descriptor(<<A>>, <<P>>, <<T>>, st, stress, RomScenario, max), <<>>>> :
        st \in {<<<<"c", "v">>>>, <<<<"c", "v">>, <<"V", "C">>>>},
        stress \in (-MaxStress)..MaxStress,
        max \in 1..MaxSyllables}

\* The romanization and the affix list vary.
RenderInputs ==
    {<<Descriptor(<<A>>, <<P, T>>, <<N>>, <<<<"c", "v">>>>, 0, rom, 2), afx>> :
        rom \in Romanizations, afx \in AffixLists}

\* The templates vary, over inventories that tell the slots apart.
SyllableInputs ==
    {<<Descriptor(<<A, I>>, <<P, T>>, <<N, S>>,
                  SetToSeq(Templates),
                  0, RomScenario, 1), <<>>>>}

Inputs ==
    WordInputs \cup RenderInputs \cup SyllableInputs

Init ==
    /\ \E in \in Inputs :
        /\ config = in[1]
        /\ affixes = in[2]
    /\ pc = "start"
    /\ word = <<>>
    /\ syllable_count = 0
    /\ i = 0
    /\ structure = <<>>
    /\ picks = <<>>
    /\ syllable = <<>>
    /\ base = <<>>
    /\ prefixed = FALSE
    /\ suffixed = FALSE
    /\ copy = <<>>
    /\ affix = <<>>
    /\ real_affix = <<>>
    /\ draws = 0
    /\ order = <<>>
    /\ ipa_word = <<>>
    /\ romanized_word = <<>>

Next ==
    \/ DrawSyllableCount
    \/ StressStep
    \/ BuildSyllable
    \/ BoundaryStep
    \/ ScanAffixes
    \/ PrefixBranch
    \/ PrefixDraw
    \/ PrefixInsert
    \/ SuffixBranch
    \/ SuffixDraw
    \/ SuffixAppend
    \/ CreateFinalStr

Spec == Init /\ [][Next]_vars

(***************************************************************************)
(* Properties.                                                             *)
(***************************************************************************)
Without(s, chars) ==
    LET keep(c) == c \notin chars IN SelectSeq(s, keep)

Count(v, x) ==
    Cardinality({k \in DOMAIN v : v[k] = x})

HasTag(list, tag) ==
    \E k \in DOMAIN list : Len(list[k]) > 0 /\ list[k][1] = tag

ScenarioDescriptor ==
    /\ config.vowels = <<A>>
    /\ config.onsets = <<P>>
    /\ config.structures = <<<<"c", "v">>>>
    /\ config.max_syllable_count = 1
    /\ config.stressed = 0
    /\ config.romanization = RomScenario
    /\ affixes = <<>>

\* C1 (as amended): the phonetic string is the concatenation of the word's
\* tokens with every bracket character removed and nothing else: stress and
\* boundary markers stay in it.  For the scenario descriptor the output pair
\* is ("'pa", "pa").
PhoneticKeepsMarkers ==
    pc = "done" =>
        /\ ipa_word = Without(concat(word), {"[", "]"})
        /\ ScenarioDescriptor =>
              /\ ipa_word = <<"'", "p", "a">>
              /\ romanized_word = <<"p", "a">>

\* C1 (as claimed): the phonetic string is the concatenation of the word's
\* tokens with every stress marker, boundary marker and bracket removed, and
\* the scenario descriptor yields ("pa", "pa").
PhoneticStripsMarkers ==
    pc = "done" =>
        /\ ipa_word = Without(concat(word), {"[", "]", "'", " "})
        /\ ScenarioDescriptor =>
              /\ ipa_word = <<"p", "a">>
              /\ romanized_word = <<"p", "a">>

\* C1 witness: a rendered two-syllable word with a prefix, whose phonetic
\* string holds a stress marker and a boundary marker.
PhoneticWitness ==
    /\ pc = "done"
    /\ prefixed
    /\ syllable_count = 2
    /\ "'" \in Range(ipa_word)
    /\ " " \in Range(ipa_word)

\* C2: once the syllable loop is over, the word holds exactly one stress
\* marker token.
ExactlyOneStressMarker ==
    pc \notin {"start", "stress", "build", "boundary"} =>
        Count(word, StressMark) = 1

\* The string s is a run of bracketed phonemes, stress markers and boundary
\* markers.
RECURSIVE Tokenized(_)
Tokenized(s) ==
    IF s = <<>> THEN TRUE
    ELSE IF Head(s) \in {"'", " "} THEN Tokenized(Tail(s))
    ELSE /\ Head(s) = "["
         /\ \E j \in 2..Len(s) :
              /\ s[j] = "]"
              /\ \A m \in 2..(j - 1) : s[m] \notin {"[", "]"}
              /\ Tokenized(SubSeq(s, j + 1, Len(s)))

\* Token by token: the grapheme of a mapped phoneme, the bare text of an
\* unmapped one, nothing for a marker.
RECURSIVE Spelled(_, _)
Spelled(s, rom) ==
    IF s = <<>> THEN <<>>
    ELSE IF Head(s) \in {"'", " "} THEN Spelled(Tail(s), rom)
    ELSE LET j == CHOOSE m \in 2..Len(s) :
                      s[m] = "]" /\ \A n \in 2..(m - 1) : s[n] # "]"
             phoneme == SubSeq(s, 2, j - 1)
         IN  (IF phoneme \in DOMAIN rom THEN rom[phoneme] ELSE phoneme)
                 \o Spelled(SubSeq(s, j + 1, Len(s)), rom)

\* C3: for a word of bracketed phonemes and markers, the romanized string is
\* the concatenation, token by token, of the mapped grapheme or else the
\* bare phoneme text, markers removed, and holds no bracket character.
RomanizedTokenByToken ==
    (pc = "done" /\ Tokenized(concat(word))) =>
        /\ romanized_word = Spelled(concat(word), config.romanization)
        /\ "[" \notin Range(romanized_word)
        /\ "]" \notin Range(romanized_word)

\* The tokens of a stripped affix: a tie-bar-joined pair in one bracket pair,
\* any other codepoint in its own.
RECURSIVE AffixTokens(_)
AffixTokens(s) ==
    IF s = <<>> THEN <<>>
    ELSE IF Len(s) >= 3 /\ s[2] = TieBar
         THEN <<"[", s[1], s[2], s[3], "]">> \o AffixTokens(SubSeq(s, 4, Len(s)))
         ELSE <<"[", s[1], "]">> \o AffixTokens(Tail(s))

\* Brackets in s are balanced and never nested.
RECURSIVE Bracketed(_, _)
Bracketed(s, open) ==
    IF s = <<>> THEN ~open
    ELSE IF Head(s) = "[" THEN ~open /\ Bracketed(Tail(s), TRUE)
    ELSE IF Head(s) = "]" THEN open /\ Bracketed(Tail(s), FALSE)
    ELSE Bracketed(Tail(s), open)

\* C4: the parse of a stripped affix puts each tie-bar-joined pair, wherever
\* it occurs, in one bracket pair and every other codepoint in its own; the
\* brackets are balanced and never nested.
AffixParseWellFormed ==
    pc \in {"suffix", "render"} =>
        /\ real_affix = AffixTokens(affix)
        /\ Bracketed(real_affix, FALSE)

\* The affix part of the word: the parse of an entry with the tag, from which
\* strip takes the tag away.
AffixOf(tok, tag, parse(_), strip(_, _)) ==
    \E k \in DOMAIN affixes :
        /\ Len(affixes[k]) > 0
        /\ affixes[k][1] = tag
        /\ tok = parse(strip(affixes[k], tag))

Frame(strip(_, _)) ==
    LET pre == IF HasTag(affixes, "+") THEN 2 ELSE 0
        suf == IF HasTag(affixes, "-") THEN 2 ELSE 0
    IN  /\ Len(word) = pre + Len(base) + suf
        /\ SubSeq(word, pre + 1, pre + Len(base)) = base
        /\ HasTag(affixes, "+") =>
              /\ AffixOf(word[1], "+", parse_prefix, strip)
              /\ word[2] = Boundary
        /\ HasTag(affixes, "-") =>
              /\ word[Len(word) - 1] = Boundary
              /\ AffixOf(word[Len(word)], "-", parse_suffix, strip)

StripAll(s, tag) ==
    Without(s, {tag})

StripLeading(s, tag) ==
    Tail(s)

\* C5 (as amended): affixation only adds tokens at the word's edges: with a
\* "+"-tagged entry the word begins with the parse of one such entry, every
\* "+" of which is removed, and one boundary marker; with a "-"-tagged entry
\* it ends with one boundary marker and the parse of one such entry, every
\* "-" of which is removed; the base word lies unchanged in between.
AffixationFrame ==
    pc \in {"render", "done"} => Frame(StripAll)

\* C5 (as claimed): the same, the parsed text being the entry with its
\* leading tag removed.
AffixationFrameLeadingTag ==
    pc \in {"render", "done"} => Frame(StripLeading)

\* C5 witness: a two-syllable word that got a prefix and a suffix.
AffixationWitness ==
    /\ pc = "done"
    /\ HasTag(affixes, "+")
    /\ HasTag(affixes, "-")
    /\ syllable_count = 2
    /\ Len(word) = Len(base) + 4

Wrapped(inventory) ==
    {<<"[">> \o x \o <<"]">> : x \in Range(inventory)}

\* C6: a built syllable is one vowel token drawn from vowels, preceded by as
\* many onset tokens, each drawn from onsets, as the template has c before
\* its v, and followed by as many coda tokens, each drawn from codas, as it
\* has c after its v.
SyllableShape ==
    pc = "boundary" =>
        LET before == Cardinality({j \in DOMAIN structure :
                          structure[j] = "c" /\ \E m \in DOMAIN structure :
                              m > j /\ structure[m] = "v"})
            after == Cardinality({j \in DOMAIN structure :
                          structure[j] = "c" /\ \E m \in DOMAIN structure :
                              m < j /\ structure[m] = "v"})
        IN  /\ Len(syllable) = before + 1 + after
            /\ \A j \in DOMAIN syllable :
                  /\ j <= before => syllable[j] \in Wrapped(config.onsets)
                  /\ j = before + 1 => syllable[j] \in Wrapped(config.vowels)
                  /\ j > before + 1 => syllable[j] \in Wrapped(config.codas)
            /\ word[Len(word)] = concat(syllable)

\* C6 witness: a syllable built from a template with an onset and a coda.
SyllableShapeWitness ==
    /\ pc = "boundary"
    /\ structure = <<"c", "c", "v", "c">>
    /\ Len(syllable) = 4

\* C7: before affixation the word is n syllables, 1 <= n <=
\* max_syllable_count, and n - 1 boundary markers, each between two
\* consecutive syllables; no boundary marker is its first or last token.
BoundariesBetweenSyllables ==
    pc = "affixes" =>
        LET unstressed == LET keep(t) == t # StressMark IN SelectSeq(word, keep)
        IN  /\ syllable_count \in 1..config.max_syllable_count
            /\ Len(unstressed) = 2 * syllable_count - 1
            /\ Count(word, Boundary) = syllable_count - 1
            /\ \A j \in DOMAIN unstressed :
                  IF j % 2 = 0
                  THEN unstressed[j] = Boundary
                  ELSE unstressed[j] # Boundary /\ Head(unstressed[j]) = "["
            /\ word[1] # Boundary
            /\ word[Len(word)] # Boundary

\* C7 witness: a word of three syllables leaves the syllable loop.
BoundariesWitness ==
    /\ pc = "affixes"
    /\ syllable_count = 3
    /\ Count(word, Boundary) = 2

\* C8: the romanized string is the same for every order in which the pairs
\* of the romanization mapping are applied.
RomanizedOrderIndependent ==
    pc = "done" =>
        \A o \in Orders(config.romanization) :
            create_final_str(word, config.romanization, o)[2] = romanized_word

\* C9: the onset tokens of a built syllable stand in the reverse of their
\* draw order, the first draw next to the vowel; the coda tokens follow the
\* vowel in their draw order.
OnsetsReversed ==
    pc = "boundary" =>
        LET v == CHOOSE k \in DOMAIN structure : structure[k] = "v" IN
        \A k \in DOMAIN structure :
            /\ k < v => syllable[v - k] = <<"[">> \o picks[k] \o <<"]">>
            /\ k > v => syllable[k] = <<"[">> \o picks[k] \o <<"]">>

\* C9 witness: a syllable with two onset slots that drew different onsets.
OnsetsReversedWitness ==
    /\ pc = "boundary"
    /\ structure = <<"c", "c", "v">>
    /\ picks[1] # picks[2]

\* C10: create_word terminates: the syllable loop runs below its bound, and
\* a selection loop draws without replacement, makes at most |affixes|
\* draws, never draws from an empty working copy, and leaves with an entry of
\* the list that carries the tag.
SelectionTerminates ==
    /\ pc # "panic"
    /\ pc \in {"stress", "build", "boundary"} => i \in 0..(syllable_count - 1)
    /\ pc \in {"prefix_draw", "suffix_draw"} =>
          /\ draws + Len(copy) = Len(affixes)
          /\ draws <= Len(affixes)
          /\ \A e \in Range(copy) : Count(copy, e) <= Count(affixes, e)
          /\ draws > 0 => affix \in Range(affixes)
          /\ copy = <<>> =>
                starts_with(affix, IF pc = "prefix_draw" THEN <<"+">> ELSE <<"-">>)

\* C10 witness: the suffix loop rejected an entry and then drew a "-"-tagged
\* one, the last of the working copy.
SelectionWitness ==
    /\ pc = "suffix_draw"
    /\ draws >= 2
    /\ copy = <<>>
    /\ starts_with(affix, <<"-">>)

====
